---- MODULE Spec2Model ----
(***************************************************************************)
(* Model of packages/lib/src/server.ts (convexOnboardings, the entityId    *)
(* variant): the "onboardings" table, the definition registry, the status  *)
(* resolver getStatus and the mutation coordinator (onboard, skip, reset,  *)
(* complete and the handler context).                                      *)
(***************************************************************************)
EXTENDS Bags, FiniteSets, Integers, Sequences, TLC

\* ------------------------------------------------------------------ bounds
MaxClock == 2
MaxDeploys == 1

\* --------------------------------------------------------------- constants
Undefined == -2
Null == -1

UnknownId == "zz"

\* One call of a handler on its handler context.
Call(call, otherId) == [call |-> call, otherId |-> otherId]

\* What a definition's handle may do, depending on `data`: the sequences of
\* handler-context calls it makes.  A call that throws ends the handler.
RichHandle ==
    { << >>,
      << Call("complete", "") >>,
      << Call("skip", "") >>,
      << Call("completeOther", "b") >>,
      << Call("completeOther", UnknownId) >>,
      << Call("isComplete", "b") >>,
      << Call("isComplete", UnknownId) >>,
      << Call("complete", ""), Call("isComplete", UnknownId) >>,
      << Call("completeOther", "b"), Call("skip", "") >>,
      << Call("complete", ""), Call("completeOther", "b") >> }

Def(id, required, optIn, hasCondition, handle) ==
    [id |-> id, version |-> 1, required |-> required, optIn |-> optIn,
     hasCondition |-> hasCondition, handle |-> handle]

\* the registry of the specification's end-to-end example
RegAB ==
    << Def("a", TRUE, FALSE, FALSE, RichHandle),
       Def("b", TRUE, TRUE, FALSE, { << Call("complete", "") >>,
                                     << Call("isComplete", "a") >> }) >>

\* three required definitions, one of them conditional
RegABC ==
    << Def("a", TRUE, FALSE, TRUE, { << Call("complete", "") >> }),
       Def("b", TRUE, TRUE, FALSE, { << Call("completeOther", "c") >> }),
       Def("c", TRUE, FALSE, FALSE, { << >> }) >>

\* an optional definition and a required, skippable, conditional one
RegOpt ==
    << Def("a", FALSE, FALSE, FALSE, RichHandle),
       Def("b", TRUE, TRUE, TRUE, { << Call("skip", "") >> }) >>

\* no required definition
RegNone ==
    << Def("a", FALSE, TRUE, FALSE, { << Call("complete", "") >>,
                                      << Call("skip", "") >> }),
       Def("b", FALSE, FALSE, FALSE, { << Call("completeOther", "a") >> }) >>

\* a single definition, used by two entities
RegOne ==
    << Def("a", TRUE, TRUE, FALSE, { << Call("complete", "") >> }) >>

Cfg(onboardings, onComplete, onAllRequiredComplete) ==
    [onboardings |-> onboardings, onComplete |-> onComplete,
     onAllRequiredComplete |-> onAllRequiredComplete]

\* The deployments explored: a configuration and the entities of the application.
Deployments ==
    { [config |-> Cfg(RegAB, oc, oa), entityIds |-> { "e1" }] :
        oc \in BOOLEAN, oa \in BOOLEAN }
    \cup { [config |-> Cfg(r, TRUE, TRUE), entityIds |-> { "e1" }] :
              r \in { RegABC, RegOpt, RegNone } }
    \cup { [config |-> Cfg(RegOne, TRUE, TRUE), entityIds |-> { "e1", "e2" }] }

VARIABLES config, entityIds, db, now, condition, lastOp

vars == << config, entityIds, db, now, condition, lastOp >>

\* ------------------------------------------------------------ the registry
Range(s) == { s[k] : k \in 1..Len(s) }

DefIds == { "a", "b", "c" }

RegistryIds == { o.id : o \in Range(config.onboardings) }

\* the ids a caller passes: those of the registry and one that no definition has
ArgIds == RegistryIds \cup { UnknownId }

\* config.onboardings.find((o) => o.id === id): the first match, or NoDef
NoDef == [id |-> "", version |-> 0, required |-> FALSE, optIn |-> FALSE,
          hasCondition |-> FALSE, handle |-> {}]

\* Mutant: an unknown id falls back to the first definition.
findOrFirst(onboardings, id) ==
    IF \E k \in 1..Len(onboardings) : onboardings[k].id = id
    THEN onboardings[CHOOSE k \in 1..Len(onboardings) :
                        /\ onboardings[k].id = id
                        /\ \A j \in 1..(k - 1) : onboardings[j].id # id]
    ELSE onboardings[1]

find(onboardings, id) ==
    IF \E k \in 1..Len(onboardings) : onboardings[k].id = id
    THEN onboardings[CHOOSE k \in 1..Len(onboardings) :
                        /\ onboardings[k].id = id
                        /\ \A j \in 1..(k - 1) : onboardings[j].id # id]
    ELSE NoDef

\* --------------------------------------------------------------- the table
NoRecord == [entityId |-> "", id |-> "", version |-> 0, state |-> "none",
             completedAt |-> Undefined, skippedAt |-> Undefined]

\* Mutant: the index is read by definition id only.
withIndexByIdOnly(d, entityId, id) ==
    { r \in BagToSet(d) : r.id = id }

\* withIndex("byEntityIdAndId", q.eq("entityId", entityId).eq("id", id))
withIndex(d, entityId, id) ==
    { r \in BagToSet(d) : r.entityId = entityId /\ r.id = id }

Count(d, entityId, id) ==
    LET m == withIndex(d, entityId, id)
        RECURSIVE Sum(_)
        Sum(S) == IF S = {} THEN 0
                  ELSE LET r == CHOOSE x \in S : TRUE
                       IN CopiesIn(r, d) + Sum(S \ {r})
    IN Sum(m)

\* .unique(): null when nothing matches, the match when there is one;
\* it throws when several documents match
NotUnique(d, entityId, id) == Count(d, entityId, id) > 1

unique(d, entityId, id) ==
    LET m == withIndex(d, entityId, id)
    IN IF m = {} THEN NoRecord ELSE CHOOSE r \in m : TRUE

insert(d, r) == d (+) SetToBag({r})

delete(d, r) == d (-) SetToBag({r})

patch(d, r, fields) ==
    delete(d, r) (+) SetToBag({ [r EXCEPT !.version = fields.version,
                                          !.state = fields.state,
                                          !.completedAt = fields.completedAt,
                                          !.skippedAt = fields.skippedAt] })

\* ------------------------------------------------------- execution context
\* The write context of one operation: the table as the operation sees it,
\* the calls made so far and the error thrown, if any.
Event(kind, id, d) == [kind |-> kind, id |-> id, db |-> d]

NewCtx(d) == [db |-> d, events |-> << >>, error |-> "none"]

Throw(c, error) == [c EXCEPT !.error = error]

\* ----------------------------------------------------------- markOnboarding
\* Mutant: the lookup of the existing record is lost and every mark inserts.
markOnboardingAlwaysInserts(c, entityId, id, version, state, t) ==
    LET d2 == insert(c.db,
                 [entityId |-> entityId, id |-> id, version |-> version,
                  state |-> state,
                  completedAt |-> IF state = "completed" THEN t ELSE Undefined,
                  skippedAt |-> IF state = "skipped" THEN t ELSE Undefined])
    IN [c EXCEPT !.db = d2,
                 !.events = Append(@, Event("markOnboarding", id, d2))]

\* Mutant: a patch keeps the timestamp the record already has.
markOnboardingKeepsFirstStamp(c, entityId, id, version, state, t) ==
    LET existing == unique(c.db, entityId, id)
        keep(old) == IF old = Undefined THEN t ELSE old
        d2 == IF existing # NoRecord
              THEN patch(c.db, existing,
                     [version |-> version,
                      state |-> state,
                      completedAt |-> IF state = "completed"
                                      THEN keep(existing.completedAt)
                                      ELSE existing.completedAt,
                      skippedAt |-> IF state = "skipped"
                                    THEN keep(existing.skippedAt)
                                    ELSE existing.skippedAt])
              ELSE insert(c.db,
                     [entityId |-> entityId, id |-> id, version |-> version,
                      state |-> state,
                      completedAt |-> IF state = "completed" THEN t
                                      ELSE Undefined,
                      skippedAt |-> IF state = "skipped" THEN t
                                    ELSE Undefined])
    IN [c EXCEPT !.db = d2,
                 !.events = Append(@, Event("markOnboarding", id, d2))]

\* Mutant: a patch clears the timestamp of the state the record leaves.
markOnboardingClearsOtherStamp(c, entityId, id, version, state, t) ==
    IF NotUnique(c.db, entityId, id) THEN Throw(c, "NotUnique")
    ELSE
      LET existing == unique(c.db, entityId, id)
          fields == [version |-> version,
                     state |-> state,
                     completedAt |-> IF state = "completed" THEN t
                                     ELSE Undefined,
                     skippedAt |-> IF state = "skipped" THEN t
                                   ELSE Undefined]
          d2 == IF existing # NoRecord
                THEN patch(c.db, existing, fields)
                ELSE insert(c.db,
                       [entityId |-> entityId, id |-> id,
                        version |-> version, state |-> state,
                        completedAt |-> fields.completedAt,
                        skippedAt |-> fields.skippedAt])
      IN [c EXCEPT !.db = d2,
                   !.events = Append(@, Event("markOnboarding", id, d2))]

\* Mutant: a mark leaves the record it finds as it is (the first writer wins).
markOnboardingKeepsExisting(c, entityId, id, version, state, t) ==
    IF NotUnique(c.db, entityId, id) THEN Throw(c, "NotUnique")
    ELSE
      LET existing == unique(c.db, entityId, id)
          d2 == IF existing # NoRecord THEN c.db
                ELSE insert(c.db,
                       [entityId |-> entityId, id |-> id,
                        version |-> version, state |-> state,
                        completedAt |-> IF state = "completed" THEN t
                                        ELSE Undefined,
                        skippedAt |-> IF state = "skipped" THEN t
                                      ELSE Undefined])
      IN [c EXCEPT !.db = d2,
                   !.events = Append(@, Event("markOnboarding", id, d2))]

\* Mutant: a patch keeps the version the record already has.
markOnboardingKeepsVersion(c, entityId, id, version, state, t) ==
    IF NotUnique(c.db, entityId, id) THEN Throw(c, "NotUnique")
    ELSE
      LET existing == unique(c.db, entityId, id)
          d2 == IF existing # NoRecord
                THEN patch(c.db, existing,
                       [version |-> existing.version,
                        state |-> state,
                        completedAt |-> IF state = "completed" THEN t
                                        ELSE existing.completedAt,
                        skippedAt |-> IF state = "skipped" THEN t
                                      ELSE existing.skippedAt])
                ELSE insert(c.db,
                       [entityId |-> entityId, id |-> id,
                        version |-> version, state |-> state,
                        completedAt |-> IF state = "completed" THEN t
                                        ELSE Undefined,
                        skippedAt |-> IF state = "skipped" THEN t
                                      ELSE Undefined])
      IN [c EXCEPT !.db = d2,
                   !.events = Append(@, Event("markOnboarding", id, d2))]

\* Mutant: a patch updates version and state and no timestamp.
markOnboardingPatchesNoStamp(c, entityId, id, version, state, t) ==
    IF NotUnique(c.db, entityId, id) THEN Throw(c, "NotUnique")
    ELSE
      LET existing == unique(c.db, entityId, id)
          d2 == IF existing # NoRecord
                THEN patch(c.db, existing,
                       [version |-> version,
                        state |-> state,
                        completedAt |-> existing.completedAt,
                        skippedAt |-> existing.skippedAt])
                ELSE insert(c.db,
                       [entityId |-> entityId, id |-> id,
                        version |-> version, state |-> state,
                        completedAt |-> IF state = "completed" THEN t
                                        ELSE Undefined,
                        skippedAt |-> IF state = "skipped" THEN t
                                      ELSE Undefined])
      IN [c EXCEPT !.db = d2,
                   !.events = Append(@, Event("markOnboarding", id, d2))]

markOnboarding(c, entityId, id, version, state, t) ==
    IF NotUnique(c.db, entityId, id) THEN Throw(c, "NotUnique")
    ELSE
      LET existing == unique(c.db, entityId, id)
          d2 == IF existing # NoRecord
                THEN patch(c.db, existing,
                       [version |-> version,
                        state |-> state,
                        completedAt |-> IF state = "completed" THEN t
                                        ELSE existing.completedAt,
                        skippedAt |-> IF state = "skipped" THEN t
                                      ELSE existing.skippedAt])
                ELSE insert(c.db,
                       [entityId |-> entityId,
                        id |-> id,
                        version |-> version,
                        state |-> state,
                        completedAt |-> IF state = "completed" THEN t
                                        ELSE Undefined,
                        skippedAt |-> IF state = "skipped" THEN t
                                      ELSE Undefined])
      IN [c EXCEPT !.db = d2,
                   !.events = Append(@, Event("markOnboarding", id, d2))]

\* ---------------------------------------------------------------- getStatus
\* x ?? null
Coalesce(x) == IF x = Undefined THEN Null ELSE x

\* Mutant: the version of the record is not compared with the definition's.
getStatusNoDrift(d, cond, entityId, onboarding) ==
    LET record == unique(d, entityId, onboarding.id)
        visible == IF onboarding.hasCondition
                   THEN cond[entityId][onboarding.id] ELSE TRUE
        state == IF record = NoRecord THEN "pending" ELSE record.state
    IN [id |-> onboarding.id,
        version |-> onboarding.version,
        required |-> onboarding.required,
        optIn |-> onboarding.optIn,
        state |-> state,
        completedVersion |-> IF record = NoRecord THEN Null ELSE record.version,
        completedAt |-> IF record = NoRecord THEN Null
                        ELSE Coalesce(record.completedAt),
        skippedAt |-> IF record = NoRecord THEN Null
                      ELSE Coalesce(record.skippedAt),
        completed |-> (state = "completed"),
        skipped |-> (state = "skipped"),
        outdated |-> FALSE,
        visible |-> visible]

\* Mutant: any record whose version differs resolves to outdated, whatever
\* its state.
getStatusDriftAnyState(d, cond, entityId, onboarding) ==
    LET record == unique(d, entityId, onboarding.id)
        visible == IF onboarding.hasCondition
                   THEN cond[entityId][onboarding.id] ELSE TRUE
        state == IF record = NoRecord THEN "pending"
                 ELSE IF record.version # onboarding.version THEN "outdated"
                 ELSE record.state
    IN [id |-> onboarding.id,
        version |-> onboarding.version,
        required |-> onboarding.required,
        optIn |-> onboarding.optIn,
        state |-> state,
        completedVersion |-> IF record = NoRecord THEN Null ELSE record.version,
        completedAt |-> IF record = NoRecord THEN Null
                        ELSE Coalesce(record.completedAt),
        skippedAt |-> IF record = NoRecord THEN Null
                      ELSE Coalesce(record.skippedAt),
        completed |-> (state = "completed"),
        skipped |-> (state = "skipped"),
        outdated |-> (state = "outdated"),
        visible |-> visible]

\* Mutant: the condition is not evaluated; every step is visible.
getStatusAlwaysVisible(d, cond, entityId, onboarding) ==
    LET record == unique(d, entityId, onboarding.id)
        state == IF record = NoRecord THEN "pending"
                 ELSE IF record.version # onboarding.version
                         /\ record.state = "completed"
                 THEN "outdated" ELSE record.state
    IN [id |-> onboarding.id,
        version |-> onboarding.version,
        required |-> onboarding.required,
        optIn |-> onboarding.optIn,
        state |-> state,
        completedVersion |-> IF record = NoRecord THEN Null ELSE record.version,
        completedAt |-> IF record = NoRecord THEN Null
                        ELSE Coalesce(record.completedAt),
        skippedAt |-> IF record = NoRecord THEN Null
                      ELSE Coalesce(record.skippedAt),
        completed |-> (state = "completed"),
        skipped |-> (state = "skipped"),
        outdated |-> (state = "outdated"),
        visible |-> TRUE]

getStatus(d, cond, entityId, onboarding) ==
    LET record == unique(d, entityId, onboarding.id)
        visible == IF onboarding.hasCondition
                   THEN cond[entityId][onboarding.id] ELSE TRUE
    IN IF record = NoRecord
       THEN [id |-> onboarding.id,
             version |-> onboarding.version,
             required |-> onboarding.required,
             optIn |-> onboarding.optIn,
             state |-> "pending",
             completedVersion |-> Null,
             completedAt |-> Null,
             skippedAt |-> Null,
             completed |-> FALSE,
             skipped |-> FALSE,
             outdated |-> FALSE,
             visible |-> visible]
       ELSE LET state == IF record.version # onboarding.version
                            /\ record.state = "completed"
                         THEN "outdated" ELSE record.state
            IN [id |-> onboarding.id,
                version |-> onboarding.version,
                required |-> onboarding.required,
                optIn |-> onboarding.optIn,
                state |-> state,
                completedVersion |-> record.version,
                completedAt |-> Coalesce(record.completedAt),
                skippedAt |-> Coalesce(record.skippedAt),
                completed |-> (state = "completed"),
                skipped |-> (state = "skipped"),
                outdated |-> (state = "outdated"),
                visible |-> visible]

\* config.onboardings.map((o) => getStatus(ctx, entityId, o))
\* Mutant: the map keeps the visible steps only.
statusesVisibleOnly(cfg, d, cond, entityId) ==
    SelectSeq([k \in 1..Len(cfg.onboardings) |->
                  getStatus(d, cond, entityId, cfg.onboardings[k])],
              LAMBDA s : s.visible)

statuses(cfg, d, cond, entityId) ==
    [k \in 1..Len(cfg.onboardings) |->
        getStatus(d, cond, entityId, cfg.onboardings[k])]

\* one of the lookups of the map throws
statusesThrow(cfg, d, entityId) ==
    \E o \in Range(cfg.onboardings) : NotUnique(d, entityId, o.id)

\* Mutant: a skipped step counts as done.
allRequiredCompleteOrSkipped(ss) ==
    \A k \in 1..Len(ss) :
        ss[k].required => (ss[k].completed \/ ss[k].skipped \/ ~ss[k].visible)

\* Mutant: hidden steps still block the aggregate.
allRequiredCompleteIgnoresVisible(ss) ==
    \A k \in 1..Len(ss) : ss[k].required => ss[k].completed

\* statuses.filter((s) => s.required).every((s) => s.completed || !s.visible)
\* Mutant: the aggregate needs at least one required step that is completed.
allRequiredCompleteNeedsOne(ss) ==
    /\ \E k \in 1..Len(ss) : ss[k].required /\ ss[k].completed
    /\ \A k \in 1..Len(ss) :
         ss[k].required => (ss[k].completed \/ ~ss[k].visible)

allRequiredComplete(ss) ==
    \A k \in 1..Len(ss) : ss[k].required => (ss[k].completed \/ ~ss[k].visible)

\* ------------------------------------------------ handleAllRequiredComplete
\* Mutant: the callback fires after every mark, whatever the statuses are.
handleAllRequiredCompleteAlways(cfg, cond, c, entityId) ==
    IF cfg.onAllRequiredComplete
    THEN [c EXCEPT !.events =
             Append(@, Event("onAllRequiredComplete", "", c.db))]
    ELSE c

\* Mutant: the callback is invoked at most once in an operation.
handleAllRequiredCompleteOnce(cfg, cond, c, entityId) ==
    IF cfg.onAllRequiredComplete
    THEN IF statusesThrow(cfg, c.db, entityId) THEN Throw(c, "NotUnique")
         ELSE IF /\ allRequiredComplete(statuses(cfg, c.db, cond, entityId))
                 /\ \A k \in 1..Len(c.events) :
                      c.events[k].kind # "onAllRequiredComplete"
              THEN [c EXCEPT !.events =
                       Append(@, Event("onAllRequiredComplete", "", c.db))]
              ELSE c
    ELSE c

handleAllRequiredComplete(cfg, cond, c, entityId) ==
    IF cfg.onAllRequiredComplete
    THEN IF statusesThrow(cfg, c.db, entityId) THEN Throw(c, "NotUnique")
         ELSE IF allRequiredComplete(statuses(cfg, c.db, cond, entityId))
              THEN [c EXCEPT !.events =
                       Append(@, Event("onAllRequiredComplete", "", c.db))]
              ELSE c
    ELSE c

\* config.onComplete, when configured
callOnComplete(cfg, c, onboarding) ==
    IF cfg.onComplete
    THEN [c EXCEPT !.events = Append(@, Event("onComplete", onboarding.id, c.db))]
    ELSE c

\* ------------------------------------------------------ createHandlerContext
\* Mutant: complete evaluates the aggregate before it invokes onComplete.
ctxCompleteAggregateFirst(cfg, cond, c, entityId, onboarding, t) ==
    LET c1 == markOnboarding(c, entityId, onboarding.id, onboarding.version,
                             "completed", t)
    IN IF c1.error # "none" THEN c1
       ELSE LET c2 == handleAllRequiredComplete(cfg, cond, c1, entityId)
            IN IF c2.error # "none" THEN c2
               ELSE callOnComplete(cfg, c2, onboarding)

\* Mutant: complete rejects a step whose condition is false.
ctxCompleteVisibleOnly(cfg, cond, c, entityId, onboarding, t) ==
    IF onboarding.hasCondition /\ ~cond[entityId][onboarding.id]
    THEN Throw(c, "NotVisible")
    ELSE LET c1 == markOnboarding(c, entityId, onboarding.id,
                                  onboarding.version, "completed", t)
         IN IF c1.error # "none" THEN c1
            ELSE handleAllRequiredComplete(cfg, cond,
                     callOnComplete(cfg, c1, onboarding), entityId)

ctxComplete(cfg, cond, c, entityId, onboarding, t) ==
    LET c1 == markOnboarding(c, entityId, onboarding.id, onboarding.version,
                             "completed", t)
    IN IF c1.error # "none" THEN c1
       ELSE handleAllRequiredComplete(cfg, cond,
                callOnComplete(cfg, c1, onboarding), entityId)

\* Mutant: skip invokes onComplete as complete does.
ctxSkipCallsOnComplete(cfg, cond, c, entityId, onboarding, t) ==
    IF ~onboarding.optIn THEN Throw(c, "NotAllowed")
    ELSE LET c1 == markOnboarding(c, entityId, onboarding.id,
                                  onboarding.version, "skipped", t)
         IN IF c1.error # "none" THEN c1
            ELSE handleAllRequiredComplete(cfg, cond,
                     callOnComplete(cfg, c1, onboarding), entityId)

\* Mutant: the handler's skip lost its opt-in guard.
ctxSkipNoGuard(cfg, cond, c, entityId, onboarding, t) ==
    LET c1 == markOnboarding(c, entityId, onboarding.id,
                             onboarding.version, "skipped", t)
    IN IF c1.error # "none" THEN c1
       ELSE handleAllRequiredComplete(cfg, cond, c1, entityId)

ctxSkip(cfg, cond, c, entityId, onboarding, t) ==
    IF ~onboarding.optIn THEN Throw(c, "NotAllowed")
    ELSE LET c1 == markOnboarding(c, entityId, onboarding.id,
                                  onboarding.version, "skipped", t)
         IN IF c1.error # "none" THEN c1
            ELSE handleAllRequiredComplete(cfg, cond, c1, entityId)

\* Mutant: isComplete creates the record it did not find.
ctxIsCompleteUpserts(cfg, cond, c, entityId, otherId) ==
    LET other == find(cfg.onboardings, otherId)
    IN IF other = NoDef THEN Throw(c, "NotFound")
       ELSE IF NotUnique(c.db, entityId, otherId) THEN Throw(c, "NotUnique")
       ELSE LET d2 == IF unique(c.db, entityId, otherId) # NoRecord THEN c.db
                      ELSE insert(c.db,
                             [entityId |-> entityId, id |-> otherId,
                              version |-> other.version, state |-> "pending",
                              completedAt |-> Undefined,
                              skippedAt |-> Undefined])
            IN [c EXCEPT !.db = d2,
                         !.events =
                           Append(@, Event(IF getStatus(d2, cond, entityId,
                                                        other).completed
                                           THEN "isComplete:true"
                                           ELSE "isComplete:false",
                                           otherId, d2))]

\* Mutant: isComplete looks at the record's state only, not at its version.
ctxIsCompleteIgnoresVersion(cfg, cond, c, entityId, otherId) ==
    LET other == find(cfg.onboardings, otherId)
    IN IF other = NoDef THEN Throw(c, "NotFound")
       ELSE IF NotUnique(c.db, entityId, otherId) THEN Throw(c, "NotUnique")
       ELSE [c EXCEPT !.events =
               Append(@, Event(IF unique(c.db, entityId, otherId).state
                                    = "completed"
                               THEN "isComplete:true" ELSE "isComplete:false",
                               otherId, c.db))]

ctxIsComplete(cfg, cond, c, entityId, otherId) ==
    LET other == find(cfg.onboardings, otherId)
    IN IF other = NoDef THEN Throw(c, "NotFound")
       ELSE IF NotUnique(c.db, entityId, otherId) THEN Throw(c, "NotUnique")
       ELSE [c EXCEPT !.events =
               Append(@, Event(IF getStatus(c.db, cond, entityId, other).completed
                               THEN "isComplete:true" ELSE "isComplete:false",
                               otherId, c.db))]

ctxCompleteOther(cfg, cond, c, entityId, otherId, t) ==
    LET other == find(cfg.onboardings, otherId)
    IN IF other = NoDef THEN Throw(c, "NotFound")
       ELSE LET c1 == markOnboarding(c, entityId, other.id, other.version,
                                     "completed", t)
            IN IF c1.error # "none" THEN c1
               ELSE handleAllRequiredComplete(cfg, cond,
                        callOnComplete(cfg, c1, other), entityId)

\* ------------------------------------------------------------------ handle
\* Mutant: completeOther completes the definition whose handler is running.
RECURSIVE handleCompleteOtherMarksSelf(_, _, _, _, _, _, _)
handleCompleteOtherMarksSelf(cfg, cond, c, entityId, onboarding, data, t) ==
    IF data = << >> \/ c.error # "none" THEN c
    ELSE LET call == Head(data)
             c1 == CASE call.call = "complete" ->
                          ctxComplete(cfg, cond, c, entityId, onboarding, t)
                     [] call.call = "skip" ->
                          ctxSkip(cfg, cond, c, entityId, onboarding, t)
                     [] call.call = "isComplete" ->
                          ctxIsComplete(cfg, cond, c, entityId, call.otherId)
                     [] call.call = "completeOther" ->
                          IF find(cfg.onboardings, call.otherId) = NoDef
                          THEN Throw(c, "NotFound")
                          ELSE ctxComplete(cfg, cond, c, entityId,
                                           onboarding, t)
         IN handleCompleteOtherMarksSelf(cfg, cond, c1, entityId, onboarding,
                                         Tail(data), t)

\* onboarding.handle is caller code: it is modelled by the sequence of
\* handler-context calls it makes for the given `data`.
RECURSIVE handle(_, _, _, _, _, _, _)
handle(cfg, cond, c, entityId, onboarding, data, t) ==
    IF data = << >> \/ c.error # "none" THEN c
    ELSE LET call == Head(data)
             c1 == CASE call.call = "complete" ->
                          ctxComplete(cfg, cond, c, entityId, onboarding, t)
                     [] call.call = "skip" ->
                          ctxSkip(cfg, cond, c, entityId, onboarding, t)
                     [] call.call = "isComplete" ->
                          ctxIsComplete(cfg, cond, c, entityId, call.otherId)
                     [] call.call = "completeOther" ->
                          ctxCompleteOther(cfg, cond, c, entityId,
                                           call.otherId, t)
         IN handle(cfg, cond, c1, entityId, onboarding, Tail(data), t)

\* ---------------------------------------------------------- the operations
\* lastOp describes the step taken last: the operation, its arguments, the
\* error it ended with ("none" when it returned), the calls it made, the
\* table before it and the value a query returned.
Op(op, entityId, id, data, c, pre, at, value) ==
    [op |-> op, entityId |-> entityId, id |-> id, data |-> data,
     result |-> c.error, events |-> c.events, pre |-> pre, at |-> at,
     value |-> value]

NoOp == [op |-> "none", entityId |-> "", id |-> "", data |-> << >>,
         result |-> "none", events |-> << >>, pre |-> EmptyBag, at |-> 0,
         value |-> << >>]

\* Mutant: onboard completes the step itself once the handler has returned.
onboardCtxAutoCompletes(cfg, cond, d, entityId, id, data, t) ==
    LET onboarding == find(cfg.onboardings, id)
    IN IF onboarding = NoDef THEN Throw(NewCtx(d), "NotFound")
       ELSE LET c1 == handle(cfg, cond,
                        [NewCtx(d) EXCEPT
                           !.events = << Event("handle", id, d) >>],
                        entityId, onboarding, data, t)
            IN IF c1.error # "none" THEN c1
               ELSE ctxComplete(cfg, cond, c1, entityId, onboarding, t)

onboardCtx(cfg, cond, d, entityId, id, data, t) ==
    LET onboarding == find(cfg.onboardings, id)
    IN IF onboarding = NoDef THEN Throw(NewCtx(d), "NotFound")
       ELSE handle(cfg, cond,
                   [NewCtx(d) EXCEPT !.events = << Event("handle", id, d) >>],
                   entityId, onboarding, data, t)

\* Mutant: skip lost its opt-in guards and marks any known definition.
skipCtxNoGuard(cfg, cond, d, entityId, id, t) ==
    LET onboarding == find(cfg.onboardings, id)
    IN IF onboarding = NoDef THEN Throw(NewCtx(d), "NotFound")
       ELSE handleAllRequiredComplete(cfg, cond,
                markOnboarding(NewCtx(d), entityId, onboarding.id,
                               onboarding.version, "skipped", t), entityId)

\* Mutant: skip checks optIn only after it has written the record.
skipCtxWritesFirst(cfg, cond, d, entityId, id, t) ==
    LET onboarding == find(cfg.onboardings, id)
    IN IF onboarding = NoDef THEN Throw(NewCtx(d), "NotFound")
       ELSE LET c1 == markOnboarding(NewCtx(d), entityId, onboarding.id,
                                     onboarding.version, "skipped", t)
            IN IF ~onboarding.optIn THEN Throw(c1, "NotAllowed")
               ELSE handleAllRequiredComplete(cfg, cond, c1, entityId)

skipCtx(cfg, cond, d, entityId, id, t) ==
    LET onboarding == find(cfg.onboardings, id)
    IN IF onboarding = NoDef THEN Throw(NewCtx(d), "NotFound")
       ELSE IF ~onboarding.optIn THEN Throw(NewCtx(d), "NotAllowed")
       ELSE ctxSkip(cfg, cond, NewCtx(d), entityId, onboarding, t)

\* Mutant: complete returns early when the record is already completed.
completeCtxOnlyOnce(cfg, cond, d, entityId, id, t) ==
    LET onboarding == find(cfg.onboardings, id)
    IN IF onboarding = NoDef THEN Throw(NewCtx(d), "NotFound")
       ELSE IF unique(d, entityId, id) # NoRecord
               /\ unique(d, entityId, id).state = "completed"
       THEN NewCtx(d)
       ELSE ctxComplete(cfg, cond, NewCtx(d), entityId, onboarding, t)

completeCtx(cfg, cond, d, entityId, id, t) ==
    LET onboarding == find(cfg.onboardings, id)
    IN IF onboarding = NoDef THEN Throw(NewCtx(d), "NotFound")
       ELSE ctxComplete(cfg, cond, NewCtx(d), entityId, onboarding, t)

\* Mutant: reset deletes completed records only.
resetCtxCompletedOnly(d, entityId, id) ==
    LET record == unique(d, entityId, id)
    IN IF record # NoRecord /\ record.state = "completed"
       THEN [NewCtx(d) EXCEPT !.db = delete(d, record),
                              !.events = << Event("delete", id, delete(d, record)) >>]
       ELSE NewCtx(d)

\* Mutant: reset re-evaluates the aggregate after deleting the record.
resetCtxReevaluates(d, entityId, id) ==
    IF NotUnique(d, entityId, id) THEN Throw(NewCtx(d), "NotUnique")
    ELSE LET record == unique(d, entityId, id)
         IN IF record # NoRecord
            THEN handleAllRequiredComplete(config, condition,
                   [NewCtx(d) EXCEPT
                      !.db = delete(d, record),
                      !.events = << Event("delete", id, delete(d, record)) >>],
                   entityId)
            ELSE NewCtx(d)

\* Mutant: reset looks its id up in the registry as the other operations do.
resetCtxChecksRegistry(d, entityId, id) ==
    IF find(config.onboardings, id) = NoDef THEN Throw(NewCtx(d), "NotFound")
    ELSE IF NotUnique(d, entityId, id) THEN Throw(NewCtx(d), "NotUnique")
    ELSE LET record == unique(d, entityId, id)
         IN IF record # NoRecord
            THEN [NewCtx(d) EXCEPT
                    !.db = delete(d, record),
                    !.events = << Event("delete", id, delete(d, record)) >>]
            ELSE NewCtx(d)

resetCtx(d, entityId, id) ==
    IF NotUnique(d, entityId, id) THEN Throw(NewCtx(d), "NotUnique")
    ELSE LET record == unique(d, entityId, id)
         IN IF record # NoRecord
            THEN [NewCtx(d) EXCEPT !.db = delete(d, record),
                                   !.events = << Event("delete", id, delete(d, record)) >>]
            ELSE NewCtx(d)

\* A mutation runs at a later time than the one before it.  The table after
\* it is the one its write context holds when it returns or throws: the
\* coordinator undoes nothing, and what an enclosing transaction does with an
\* error is the caller's.
Mutation(op, entityId, id, data, c) ==
    /\ now < MaxClock
    /\ now' = now + 1
    /\ db' = c.db
    /\ lastOp' = Op(op, entityId, id, data, c, db, now + 1, << >>)
    /\ UNCHANGED << config, entityIds, condition >>

onboard(entityId, id, data) ==
    Mutation("onboard", entityId, id, data,
             onboardCtx(config, condition, db, entityId, id, data, now + 1))

skip(entityId, id) ==
    Mutation("skip", entityId, id, << >>,
             skipCtx(config, condition, db, entityId, id, now + 1))

reset(entityId, id) ==
    Mutation("reset", entityId, id, << >>, resetCtx(db, entityId, id))

complete(entityId, id) ==
    Mutation("complete", entityId, id, << >>,
             completeCtx(config, condition, db, entityId, id, now + 1))

Query(op, entityId, id, error, value) ==
    /\ lastOp' = Op(op, entityId, id, << >>, Throw(NewCtx(db), error), db, now,
                     value)
    /\ UNCHANGED << config, entityIds, db, now, condition >>

list(entityId) ==
    IF statusesThrow(config, db, entityId)
    THEN Query("list", entityId, "", "NotUnique", << >>)
    ELSE Query("list", entityId, "", "none",
               statuses(config, db, condition, entityId))

status(entityId, id) ==
    LET onboarding == find(config.onboardings, id)
    IN IF onboarding = NoDef
       THEN Query("status", entityId, id, "NotFound", << >>)
       ELSE IF NotUnique(db, entityId, id)
       THEN Query("status", entityId, id, "NotUnique", << >>)
       ELSE Query("status", entityId, id, "none",
                  << getStatus(db, condition, entityId, onboarding) >>)

allComplete(entityId) ==
    IF statusesThrow(config, db, entityId)
    THEN Query("allComplete", entityId, "", "NotUnique", << >>)
    ELSE Query("allComplete", entityId, "", "none",
               << allRequiredComplete(statuses(config, db, condition, entityId)) >>)

\* ---------------------------------------------------------- the environment
\* the number of version bumps deployed so far
RECURSIVE Bumps(_)
Bumps(onboardings) ==
    IF onboardings = << >> THEN 0
    ELSE (Head(onboardings).version - 1) + Bumps(Tail(onboardings))

\* A redeploy with the version of one definition bumped.
BumpVersion(k) ==
    /\ Bumps(config.onboardings) < MaxDeploys
    /\ config' = [config EXCEPT !.onboardings[k].version = @ + 1]
    /\ lastOp' = [NoOp EXCEPT !.op = "BumpVersion",
                              !.id = config.onboardings[k].id]
    /\ UNCHANGED << entityIds, db, now, condition >>

\* The data a definition's condition reads changes its value for one entity.
SetCondition(entityId, id) ==
    /\ find(config.onboardings, id).hasCondition
    /\ condition' = [condition EXCEPT ![entityId][id] = ~@]
    /\ lastOp' = [NoOp EXCEPT !.op = "SetCondition", !.entityId = entityId,
                              !.id = id]
    /\ UNCHANGED << config, entityIds, db, now >>

\* the `data` values tried for a definition: one per behaviour of its handle;
\* for an unknown id the handler is never reached
DataFor(id) ==
    IF find(config.onboardings, id) = NoDef THEN { << >> }
    ELSE find(config.onboardings, id).handle

Init ==
    /\ \E dep \in Deployments : /\ config = dep.config
                                /\ entityIds = dep.entityIds
    /\ db = EmptyBag
    /\ now = 0
    /\ condition = [e \in {"e1", "e2"} |-> [i \in DefIds |-> TRUE]]
    /\ lastOp = NoOp

Next ==
    \/ \E e \in entityIds, i \in ArgIds : \E data \in DataFor(i) : onboard(e, i, data)
    \/ \E e \in entityIds, i \in ArgIds : skip(e, i)
    \/ \E e \in entityIds, i \in ArgIds : reset(e, i)
    \/ \E e \in entityIds, i \in ArgIds : complete(e, i)
    \/ \E e \in entityIds : list(e)
    \/ \E e \in entityIds, i \in ArgIds : status(e, i)
    \/ \E e \in entityIds : allComplete(e)
    \/ \E k \in 1..Len(config.onboardings) : BumpVersion(k)
    \/ \E e \in entityIds, i \in RegistryIds : SetCondition(e, i)

Spec == Init /\ [][Next]_vars

\* =================================================================== claims
\* helpers of the claims
IsMark(op) == op \in { "onboard", "complete", "skip" }

Known(id) == id \in RegistryIds

DefOf(id) == find(config.onboardings, id)

\* the records of one (entityId, definition id) pair in a table
RecordsOf(d, e, i) == { r \in BagToSet(d) : r.entityId = e /\ r.id = i }

\* what allComplete(entityId) returns in the current state
AllCompleteNow(e) == allRequiredComplete(statuses(config, db, condition, e))

\* what status(entityId, id) returns in the current state
StatusNow(e, i) == getStatus(db, condition, e, DefOf(i))

\* the current value of a definition's condition for an entity
VisibleNow(e, o) == o.hasCondition => condition[e][o.id]

\* the definition resolves to completed in table d: a completed record at
\* the definition's current version
CompletedIn(d, e, o) ==
    \E r \in RecordsOf(d, e, o.id) :
        r.state = "completed" /\ r.version = o.version

\* C1: the table holds at most one record per (entityId, definition id)
\* pair, in every state and after every write inside an operation; marking a
\* pair that has a record leaves exactly one record for it.
C1_OneRecordPerPair ==
    /\ \A e \in entityIds, i \in ArgIds : Count(db, e, i) <= 1
    /\ \A k \in 1..Len(lastOp.events) :
         \A e \in entityIds, i \in ArgIds : Count(lastOp.events[k].db, e, i) <= 1
    /\ (/\ lastOp.op \in { "complete", "skip" }
        /\ lastOp.result = "none"
        /\ RecordsOf(lastOp.pre, lastOp.entityId, lastOp.id) # {})
       => /\ Count(db, lastOp.entityId, lastOp.id) = 1
          /\ BagCardinality(db) = BagCardinality(lastOp.pre)

\* C1 witness: a complete or skip on a pair that already had a record
C1_Witness ==
    /\ lastOp.op \in { "complete", "skip" }
    /\ lastOp.result = "none"
    /\ RecordsOf(lastOp.pre, lastOp.entityId, lastOp.id) # {}
    /\ Count(db, lastOp.entityId, lastOp.id) = 1
    /\ db # lastOp.pre

\* the registry of the end-to-end example: a (required, not opt-in) and
\* b (required, opt-in), both at version 1 and without condition
C2_Registry ==
    /\ Len(config.onboardings) = 2
    /\ \A k \in 1..2 : LET o == config.onboardings[k]
                        IN o.required /\ o.version = 1 /\ ~o.hasCondition
    /\ config.onboardings[1].id = "a" /\ ~config.onboardings[1].optIn
    /\ config.onboardings[2].id = "b" /\ config.onboardings[2].optIn

C2_AllPending(e) ==
    LET ss == statuses(config, db, condition, e)
    IN \A k \in 1..Len(ss) : ss[k].state = "pending"

\* the state complete(a) leaves when nothing was recorded before
C2_AfterCompleteA(e) ==
    /\ \E r \in RecordsOf(db, e, "a") : r.state = "completed"
    /\ RecordsOf(db, e, "b") = {}

\* the state a skip(b) following complete(a) leaves
C2_AfterSkipB(e) ==
    /\ lastOp.op = "skip" /\ lastOp.id = "b" /\ lastOp.entityId = e
    /\ lastOp.result = "none"
    /\ \E r \in RecordsOf(lastOp.pre, e, "a") : r.state = "completed"
    /\ RecordsOf(lastOp.pre, e, "b") = {}

\* C2 as stated: initially both pending, after complete(a) allComplete is
\* false, and after the following skip(b) allComplete is true.
C2_SkipSatisfiesAggregate ==
    C2_Registry =>
      \A e \in entityIds :
        /\ (db = EmptyBag => C2_AllPending(e))
        /\ (C2_AfterCompleteA(e) => ~AllCompleteNow(e))
        /\ (C2_AfterSkipB(e) => AllCompleteNow(e))

\* C2 amended: initially both pending, after complete(a) allComplete is
\* false, and after the following skip(b) allComplete is still false: b
\* resolves to skipped, which does not satisfy the aggregate.
C2_SkipLeavesAggregateFalse ==
    C2_Registry =>
      \A e \in entityIds :
        /\ (db = EmptyBag => C2_AllPending(e))
        /\ (C2_AfterCompleteA(e) => ~AllCompleteNow(e))
        /\ (C2_AfterSkipB(e) =>
              /\ ~AllCompleteNow(e)
              /\ StatusNow(e, "a").completed
              /\ StatusNow(e, "b").skipped)
        /\ ((lastOp.op = "allComplete" /\ lastOp.entityId = e
             /\ \E r \in RecordsOf(db, e, "b") : r.state = "skipped")
            => lastOp.value = << FALSE >>)

\* C2 witness: complete(a) then skip(b) in the example's registry
C2_Witness ==
    /\ C2_Registry
    /\ C2_AfterSkipB("e1")
    /\ StatusNow("e1", "b").skipped

\* C3: allComplete returns true exactly when every required definition is
\* completed at its current version or currently hidden.
C3_AggregateRule(e) ==
    \A o \in Range(config.onboardings) :
        o.required => (CompletedIn(db, e, o) \/ ~VisibleNow(e, o))

C3_AllCompleteIffRequiredDoneOrHidden ==
    /\ \A e \in entityIds : AllCompleteNow(e) <=> C3_AggregateRule(e)
    /\ (lastOp.op = "allComplete" /\ lastOp.result = "none")
       => lastOp.value = << C3_AggregateRule(lastOp.entityId) >>

\* C3 witness: three required definitions, one hidden and pending, the other
\* two completed, and allComplete has returned true
C3_Witness ==
    /\ lastOp.op = "allComplete"
    /\ lastOp.value = << TRUE >>
    /\ Len(config.onboardings) = 3
    /\ \A o \in Range(config.onboardings) : o.required
    /\ \E o \in Range(config.onboardings) :
         /\ ~VisibleNow(lastOp.entityId, o)
         /\ RecordsOf(db, lastOp.entityId, o.id) = {}
         /\ \A p \in Range(config.onboardings) \ {o} :
              VisibleNow(lastOp.entityId, p) /\ CompletedIn(db, lastOp.entityId, p)
\* the status a read gives for a pair without record
C4_Pending(st) ==
    /\ st.state = "pending"
    /\ st.completedVersion = Null /\ st.completedAt = Null /\ st.skippedAt = Null
    /\ ~st.completed /\ ~st.skipped /\ ~st.outdated

C4_OneShorthand(st) ==
    Cardinality({ x \in { "completed", "skipped", "outdated" } :
                    \/ (x = "completed" /\ st.completed)
                    \/ (x = "skipped" /\ st.skipped)
                    \/ (x = "outdated" /\ st.outdated) }) = 1

\* the status the claim gives for record r of definition o
C4_Derived(st, r, o) ==
    /\ C4_OneShorthand(st)
    /\ (r.state = "completed" /\ r.version # o.version) =>
          /\ st.state = "outdated" /\ st.outdated /\ ~st.completed
          /\ st.completedVersion = r.version
    /\ ~(r.state = "completed" /\ r.version # o.version) =>
          /\ st.state = r.state
          /\ st.completed = (r.state = "completed")
          /\ st.skipped = (r.state = "skipped")

\* C4: the status returned by status(entityId, id) is pending with nulls when
\* the pair has no record, outdated when its completed record has another
\* version than the definition, and the record's state otherwise.
C4_StatusDerivedFromRecord ==
    (lastOp.op = "status" /\ lastOp.result = "none") =>
      LET st == lastOp.value[1]
          recs == RecordsOf(db, lastOp.entityId, lastOp.id)
      IN /\ st.id = lastOp.id
         /\ recs = {} => C4_Pending(st)
         /\ \A r \in recs : C4_Derived(st, r, DefOf(lastOp.id))

\* C4 witness: status read of a record completed at version 1 whose
\* definition is now at version 2
C4_Witness ==
    /\ lastOp.op = "status" /\ lastOp.result = "none"
    /\ DefOf(lastOp.id).version = 2
    /\ \E r \in RecordsOf(db, lastOp.entityId, lastOp.id) :
         r.state = "completed" /\ r.version = 1
    /\ lastOp.value[1].state = "outdated"
    /\ lastOp.value[1].completedVersion = 1

\* the aggregate of the claim on table d: every required definition is
\* completed at its current version or hidden
C5_Satisfied(d, e) ==
    \A o \in Range(config.onboardings) :
        o.required => (CompletedIn(d, e, o) \/ ~VisibleNow(e, o))

\* after the write at position k of the last operation's calls, the callback
\* was invoked before any further write
C5_FiredAfter(k) ==
    \E j \in (k + 1)..Len(lastOp.events) :
        /\ lastOp.events[j].kind = "onAllRequiredComplete"
        /\ \A m \in (k + 1)..(j - 1) : lastOp.events[m].kind # "markOnboarding"

\* C5: with onAllRequiredComplete configured, every record write of a
\* complete, skip or completeOther is followed by the callback exactly when
\* the table it leaves satisfies the aggregate; the callback is never invoked
\* on a table that does not satisfy it.
C5_CallbackIffAllRequiredComplete ==
    (IsMark(lastOp.op) /\ config.onAllRequiredComplete) =>
      /\ \A k \in 1..Len(lastOp.events) :
           lastOp.events[k].kind = "markOnboarding" =>
             (C5_FiredAfter(k) <=> C5_Satisfied(lastOp.events[k].db, lastOp.entityId))
      /\ \A k \in 1..Len(lastOp.events) :
           lastOp.events[k].kind = "onAllRequiredComplete" =>
             /\ C5_Satisfied(lastOp.events[k].db, lastOp.entityId)
             /\ \E j \in 1..(k - 1) : lastOp.events[j].kind = "markOnboarding"

\* C5 witness: one operation writes twice; the callback is not invoked after
\* the first write, which leaves a required step pending, and is invoked
\* after the second
C5_Witness ==
    /\ lastOp.op = "onboard" /\ lastOp.result = "none"
    /\ config.onAllRequiredComplete
    /\ \E k \in 1..Len(lastOp.events), j \in 1..Len(lastOp.events) :
         /\ k < j
         /\ lastOp.events[k].kind = "markOnboarding"
         /\ lastOp.events[j].kind = "markOnboarding"
         /\ ~C5_FiredAfter(k)
         /\ C5_FiredAfter(j)

\* C6: skip of a definition that is not opt-in ends with NotAllowed, writes
\* nothing and invokes no callback.
C6_SkipMandatoryNotAllowed ==
    (lastOp.op = "skip" /\ Known(lastOp.id) /\ ~DefOf(lastOp.id).optIn) =>
      /\ lastOp.result = "NotAllowed"
      /\ db = lastOp.pre
      /\ lastOp.events = << >>

\* C6 witness: a rejected skip of a mandatory step that has a record
C6_Witness ==
    /\ lastOp.op = "skip" /\ lastOp.result = "NotAllowed"
    /\ RecordsOf(db, lastOp.entityId, lastOp.id) # {}

\* the handler's first call with an unknown otherId, when no earlier call throws
C7_ReachesUnknown(data, o) ==
    \E k \in 1..Len(data) :
        /\ data[k].call \in { "isComplete", "completeOther" }
        /\ ~Known(data[k].otherId)
        /\ \A j \in 1..(k - 1) :
             /\ data[j].call = "skip" => o.optIn
             /\ data[j].call \in { "isComplete", "completeOther" }
                  => Known(data[j].otherId)

\* C7: onboard, status, skip and complete with an id that is not in the
\* registry end with NotFound before any handler, callback or write; a
\* handler call of isComplete or completeOther with an unknown otherId ends
\* the operation with NotFound.
C7_UnknownIdNotFound ==
    /\ (lastOp.op \in { "onboard", "status", "skip", "complete" }
        /\ ~Known(lastOp.id))
       => /\ lastOp.result = "NotFound"
          /\ lastOp.events = << >>
          /\ db = lastOp.pre
    /\ (lastOp.op = "onboard" /\ Known(lastOp.id)
        /\ C7_ReachesUnknown(lastOp.data, DefOf(lastOp.id)))
       => lastOp.result = "NotFound"
    /\ lastOp.result = "NotFound" =>
         \/ lastOp.op \in { "onboard", "status", "skip", "complete" }
              /\ ~Known(lastOp.id)
         \/ lastOp.op = "onboard"
              /\ C7_ReachesUnknown(lastOp.data, DefOf(lastOp.id))

\* C7 witness: complete with an unknown id on a table that holds records
C7_Witness ==
    /\ lastOp.op = "complete" /\ ~Known(lastOp.id)
    /\ lastOp.result = "NotFound"
    /\ db # EmptyBag
C8_Failed == lastOp.result \in { "NotFound", "NotAllowed" }

\* the table the writes of the last operation left: the one after its last
\* markOnboarding, or the table before the operation when it wrote nothing
C8_Written ==
    LET ws == { k \in 1..Len(lastOp.events) :
                  lastOp.events[k].kind = "markOnboarding" }
    IN IF ws = {} THEN lastOp.pre
       ELSE lastOp.events[CHOOSE k \in ws : \A j \in ws : j <= k].db

\* C8 as stated: an operation that ends with NotFound or NotAllowed leaves
\* the table exactly as it was before the operation.
C8_FailureLeavesStoreUnchanged ==
    C8_Failed => db = lastOp.pre

\* C8 amended: a failing skip, complete or status, and an onboard that fails
\* before any handler-context write, leave the table as it was and invoke no
\* callback; an onboard whose handler wrote before a later call failed leaves
\* the table with those writes: the coordinator undoes nothing.
C8_FailureKeepsWritesMade ==
    C8_Failed =>
      /\ db = C8_Written
      /\ lastOp.op # "onboard" => (db = lastOp.pre /\ lastOp.events = << >>)
      /\ (\A k \in 1..Len(lastOp.events) :
            lastOp.events[k].kind # "markOnboarding") => db = lastOp.pre

\* C8 witness: an onboard ends with NotFound after its handler completed
\* the step, and the record written stays in the table
C8_Witness ==
    /\ lastOp.op = "onboard" /\ lastOp.result = "NotFound"
    /\ \E k \in 1..Len(lastOp.events) : lastOp.events[k].kind = "markOnboarding"
    /\ RecordsOf(lastOp.pre, lastOp.entityId, lastOp.id) = {}
    /\ RecordsOf(db, lastOp.entityId, lastOp.id) # {}

\* C9: reset never fails, removes the record of its pair and nothing else,
\* and the status of the pair is then pending with nulls and false flags.
C9_ResetReturnsToPending ==
    lastOp.op = "reset" =>
      /\ lastOp.result = "none"
      /\ RecordsOf(db, lastOp.entityId, lastOp.id) = {}
      /\ \A r \in BagToSet(lastOp.pre) :
           (r.entityId # lastOp.entityId \/ r.id # lastOp.id)
             => CopiesIn(r, db) = CopiesIn(r, lastOp.pre)
      /\ BagToSet(db) \subseteq BagToSet(lastOp.pre)
      /\ RecordsOf(lastOp.pre, lastOp.entityId, lastOp.id) = {} => db = lastOp.pre
      /\ Known(lastOp.id) => C4_Pending(StatusNow(lastOp.entityId, lastOp.id))

\* C9 witness: reset of a skipped record
C9_Witness ==
    /\ lastOp.op = "reset"
    /\ \E r \in RecordsOf(lastOp.pre, lastOp.entityId, lastOp.id) :
         r.state = "skipped" /\ r.skippedAt # Undefined
    /\ StatusNow(lastOp.entityId, lastOp.id).state = "pending"

\* C10: complete on a pair whose record is already completed is not an
\* error: the pair still has one record, its status is completed and
\* completedAt is the time of this call.
C10_SecondCompleteRestamps ==
    (/\ lastOp.op = "complete" /\ Known(lastOp.id)
     /\ \E r \in RecordsOf(lastOp.pre, lastOp.entityId, lastOp.id) :
          r.state = "completed")
    => /\ lastOp.result = "none"
       /\ Count(db, lastOp.entityId, lastOp.id) = 1
       /\ BagCardinality(db) = BagCardinality(lastOp.pre)
       /\ StatusNow(lastOp.entityId, lastOp.id).state = "completed"
       /\ StatusNow(lastOp.entityId, lastOp.id).completedAt = lastOp.at

\* C10 witness: the second complete happened later than the first
C10_Witness ==
    /\ lastOp.op = "complete" /\ lastOp.result = "none"
    /\ \E r \in RecordsOf(lastOp.pre, lastOp.entityId, lastOp.id) :
         /\ r.state = "completed"
         /\ r.completedAt < lastOp.at
         /\ r.version = DefOf(lastOp.id).version
    /\ StatusNow(lastOp.entityId, lastOp.id).completedAt = lastOp.at

\* ---------------------------------------------------------------------- C11
\* the operation described by op completed or reset the record of (e, i):
\* it wrote the record as completed, or deleted it
C11_Touches(op, e, i) ==
    /\ op.entityId = e
    /\ \E k \in 1..Len(op.events) :
         /\ op.events[k].id = i
         /\ \/ op.events[k].kind = "delete"
            \/ /\ op.events[k].kind = "markOnboarding"
               /\ \E r \in RecordsOf(op.events[k].db, e, i) :
                    r.state = "completed"

C11_Skipped(st) ==
    st.state = "skipped" /\ st.skipped /\ ~st.outdated /\ ~st.completed

\* C11: a status that is skipped stays skipped (skipped = true, outdated =
\* false) over every step, a change of the definition's version included,
\* that is not a complete, completeOther or reset of that record.
C11_SkippedNeverOutdated ==
    [][\A e \in entityIds : \A i \in RegistryIds :
         (C11_Skipped(StatusNow(e, i)) /\ ~C11_Touches(lastOp', e, i))
           => C11_Skipped(getStatus(db', condition', e,
                                    find(config'.onboardings, i)))]_vars

\* C11 witness: status is read for a skipped record whose version is older
\* than the definition's, and reports skipped
C11_Witness ==
    /\ lastOp.op = "status" /\ lastOp.result = "none"
    /\ \E r \in RecordsOf(db, lastOp.entityId, lastOp.id) :
         r.state = "skipped" /\ r.version < DefOf(lastOp.id).version
    /\ C11_Skipped(lastOp.value[1])

\* ---------------------------------------------------------------------- C12
\* the table before the call at position k of the last operation
C12_Before(k) == IF k = 1 THEN lastOp.pre ELSE lastOp.events[k - 1].db

\* record r2 is record r marked with a new state at the last operation's
\* time: version and state are new, the new state's timestamp is the time of
\* the operation, the other timestamp is r's
C12_Marked(r, r2, o) ==
    /\ r2.version = o.version
    /\ r2.state \in { "completed", "skipped" }
    /\ r2.state = "completed" =>
         (r2.completedAt = lastOp.at /\ r2.skippedAt = r.skippedAt)
    /\ r2.state = "skipped" =>
         (r2.skippedAt = lastOp.at /\ r2.completedAt = r.completedAt)

\* C12: every write of complete, skip or completeOther on a pair that has a
\* record leaves one record with the definition's version, the new state and
\* the new state's timestamp, and with the other timestamp as it was; after
\* a successful complete or skip, status reports both timestamps.
C12_MarkKeepsOtherTimestamp ==
    IsMark(lastOp.op) =>
      /\ \A k \in 1..Len(lastOp.events) :
           lastOp.events[k].kind = "markOnboarding" =>
             \A r \in RecordsOf(C12_Before(k), lastOp.entityId,
                                lastOp.events[k].id) :
               \E r2 \in RecordsOf(lastOp.events[k].db, lastOp.entityId,
                                   lastOp.events[k].id) :
                 /\ C12_Marked(r, r2, DefOf(lastOp.events[k].id))
                 /\ RecordsOf(lastOp.events[k].db, lastOp.entityId,
                              lastOp.events[k].id) = { r2 }
      /\ (lastOp.op \in { "complete", "skip" } /\ lastOp.result = "none") =>
           \A r \in RecordsOf(lastOp.pre, lastOp.entityId, lastOp.id) :
             LET st == StatusNow(lastOp.entityId, lastOp.id)
             IN IF lastOp.op = "skip"
                THEN /\ st.skippedAt = lastOp.at
                     /\ st.completedAt = Coalesce(r.completedAt)
                ELSE /\ st.completedAt = lastOp.at
                     /\ st.skippedAt = Coalesce(r.skippedAt)

\* C12 witness: a skip of a completed record; status reports the earlier
\* completedAt next to the new skippedAt
C12_Witness ==
    /\ lastOp.op = "skip" /\ lastOp.result = "none"
    /\ \E r \in RecordsOf(lastOp.pre, lastOp.entityId, lastOp.id) :
         /\ r.state = "completed"
         /\ r.completedAt < lastOp.at
         /\ StatusNow(lastOp.entityId, lastOp.id).completedAt = r.completedAt
         /\ StatusNow(lastOp.entityId, lastOp.id).skippedAt = lastOp.at

\* ---------------------------------------------------------------------- C13
\* the last operation is onboard(entityId, A) whose handler makes one call,
\* completeOther(B), for a registered B other than A
C13_CompleteOtherOnly ==
    /\ lastOp.op = "onboard" /\ Known(lastOp.id)
    /\ Len(lastOp.data) = 1
    /\ lastOp.data[1].call = "completeOther"
    /\ Known(lastOp.data[1].otherId)
    /\ lastOp.data[1].otherId # lastOp.id

\* C13: completeOther(B) from the handler of A leaves (entityId, B) completed
\* at B's current version and at the time of the operation, invokes
\* onComplete (when configured) once, with B and never with A, and leaves
\* the records of (entityId, A) as they were.
C13_CompleteOtherMarksOther ==
    C13_CompleteOtherOnly =>
      LET e == lastOp.entityId
          A == lastOp.id
          B == lastOp.data[1].otherId
          onCompletes == { k \in 1..Len(lastOp.events) :
                             lastOp.events[k].kind = "onComplete" }
      IN /\ lastOp.result = "none"
         /\ RecordsOf(db, e, B) # {}
         /\ \A r \in RecordsOf(db, e, B) :
              /\ r.state = "completed"
              /\ r.version = DefOf(B).version
              /\ r.completedAt = lastOp.at
         /\ StatusNow(e, B).completed
         /\ RecordsOf(db, e, A) = RecordsOf(lastOp.pre, e, A)
         /\ \A k \in onCompletes : lastOp.events[k].id = B
         /\ Cardinality(onCompletes) = IF config.onComplete THEN 1 ELSE 0

\* C13 witness: A has a record and B has none when the handler of A
\* completes B; onComplete is invoked with B
C13_Witness ==
    /\ C13_CompleteOtherOnly
    /\ lastOp.result = "none"
    /\ RecordsOf(lastOp.pre, lastOp.entityId, lastOp.id) # {}
    /\ RecordsOf(lastOp.pre, lastOp.entityId, lastOp.data[1].otherId) = {}
    /\ \E k \in 1..Len(lastOp.events) :
         /\ lastOp.events[k].kind = "onComplete"
         /\ lastOp.events[k].id = lastOp.data[1].otherId

\* ---------------------------------------------------------------------- C14
\* the positions of the last operation's calls of one kind
C14_Calls(kind) ==
    { k \in 1..Len(lastOp.events) : lastOp.events[k].kind = kind }

\* C14: onboard of a registered definition invokes its handle exactly once,
\* first, on the table as it was; when the handler calls no context method
\* the operation returns, the table and the status of the step are as
\* before, and no callback is invoked.
C14_OnboardDoesNotComplete ==
    (lastOp.op = "onboard" /\ Known(lastOp.id)) =>
      /\ C14_Calls("handle") = { 1 }
      /\ lastOp.events[1] = Event("handle", lastOp.id, lastOp.pre)
      /\ lastOp.data = << >> =>
           /\ lastOp.result = "none"
           /\ db = lastOp.pre
           /\ lastOp.events = << Event("handle", lastOp.id, lastOp.pre) >>
           /\ C14_Calls("onComplete") = {}
           /\ C14_Calls("onAllRequiredComplete") = {}
           /\ StatusNow(lastOp.entityId, lastOp.id)
                = getStatus(lastOp.pre, condition, lastOp.entityId,
                            DefOf(lastOp.id))

\* C14 witness: a handler that calls nothing runs for a step that is still
\* pending while another step is completed; the step stays pending
C14_Witness ==
    /\ lastOp.op = "onboard" /\ Known(lastOp.id)
    /\ lastOp.data = << >>
    /\ lastOp.result = "none"
    /\ lastOp.pre # EmptyBag
    /\ StatusNow(lastOp.entityId, lastOp.id).state = "pending"
    /\ config.onComplete /\ config.onAllRequiredComplete

\* ---------------------------------------------------------------------- C15
\* the status of the last operation's step on the table before the operation
C15_StatusBefore ==
    getStatus(lastOp.pre, condition, lastOp.entityId, DefOf(lastOp.id))

\* C15: complete of a registered definition returns without running the
\* handler; it leaves one record, completed, with the definition's current
\* version and the time of the operation, and the status read next is
\* completed with completedVersion equal to the definition's version,
\* whatever the status was before.
C15_CompleteWritesCompleted ==
    (lastOp.op = "complete" /\ Known(lastOp.id)) =>
      LET st == StatusNow(lastOp.entityId, lastOp.id)
      IN /\ lastOp.result = "none"
         /\ C15_StatusBefore.state
              \in { "pending", "skipped", "outdated", "completed" }
         /\ \A k \in 1..Len(lastOp.events) : lastOp.events[k].kind # "handle"
         /\ RecordsOf(db, lastOp.entityId, lastOp.id) # {}
         /\ \A r \in RecordsOf(db, lastOp.entityId, lastOp.id) :
              /\ r.state = "completed"
              /\ r.version = DefOf(lastOp.id).version
              /\ r.completedAt = lastOp.at
         /\ st.state = "completed" /\ st.completed
         /\ ~st.skipped /\ ~st.outdated
         /\ st.completedVersion = DefOf(lastOp.id).version
         /\ st.completedAt = lastOp.at

\* C15 witness: complete of a step whose status was outdated (completed at
\* version 1, definition at version 2)
C15_Witness ==
    /\ lastOp.op = "complete" /\ Known(lastOp.id)
    /\ C15_StatusBefore.state = "outdated"
    /\ DefOf(lastOp.id).version = 2
    /\ StatusNow(lastOp.entityId, lastOp.id).completedVersion = 2

\* ---------------------------------------------------------------------- C16
C16_Reads == { "status", "list", "allComplete" }

\* what the read of the last operation returns when it is made again in the
\* current state
C16_ReadAgain ==
    CASE lastOp.op = "status" ->
           << StatusNow(lastOp.entityId, lastOp.id) >>
      [] lastOp.op = "list" ->
           statuses(config, db, condition, lastOp.entityId)
      [] lastOp.op = "allComplete" ->
           << AllCompleteNow(lastOp.entityId) >>

\* C16: status, list and allComplete leave the table as it was and make no
\* call, and what they return is what the same read returns in the state
\* they leave; a handler's isComplete leaves the table as it was before the
\* call, invokes no callback, and answers with the completed flag of the
\* status on that table.
C16_ReadsHaveNoSideEffects ==
    /\ lastOp.op \in C16_Reads =>
         /\ db = lastOp.pre
         /\ lastOp.events = << >>
         /\ lastOp.result = "none" => lastOp.value = C16_ReadAgain
    /\ lastOp.op = "onboard" =>
         \A k \in 1..Len(lastOp.events) :
           lastOp.events[k].kind \in { "isComplete:true", "isComplete:false" }
             => /\ lastOp.events[k].db = C12_Before(k)
                /\ (lastOp.events[k].kind = "isComplete:true")
                     <=> getStatus(C12_Before(k), condition, lastOp.entityId,
                                   DefOf(lastOp.events[k].id)).completed
    /\ (/\ lastOp.op = "onboard" /\ Len(lastOp.data) = 1
        /\ lastOp.data[1].call = "isComplete" /\ Known(lastOp.id)) =>
         /\ db = lastOp.pre
         /\ C14_Calls("onComplete") = {}
         /\ C14_Calls("onAllRequiredComplete") = {}
         /\ C14_Calls("markOnboarding") = {}

\* C16 witness: a handler asks isComplete of a step that has no record while
\* the table holds another record; the answer is false and the table is as
\* it was
C16_Witness ==
    /\ lastOp.op = "onboard" /\ lastOp.result = "none"
    /\ Len(lastOp.data) = 1 /\ lastOp.data[1].call = "isComplete"
    /\ config.onComplete /\ config.onAllRequiredComplete
    /\ lastOp.pre # EmptyBag
    /\ RecordsOf(lastOp.pre, lastOp.entityId, lastOp.data[1].otherId) = {}
    /\ lastOp.events[2].kind = "isComplete:false"
    /\ db = lastOp.pre

\* ---------------------------------------------------------------------- C17
\* the writes of the last operation that leave the aggregate satisfied
C17_SatisfyingWrites ==
    { k \in C14_Calls("markOnboarding") :
        C5_Satisfied(lastOp.events[k].db, lastOp.entityId) }

\* C17: with onAllRequiredComplete configured, an operation that starts on
\* a table already satisfying the aggregate invokes the callback after each
\* of its writes that leaves the aggregate satisfied, once per such write.
C17_CallbackFiresAgain ==
    (/\ IsMark(lastOp.op) /\ config.onAllRequiredComplete
     /\ C5_Satisfied(lastOp.pre, lastOp.entityId)) =>
      /\ \A k \in C17_SatisfyingWrites : C5_FiredAfter(k)
      /\ Cardinality(C14_Calls("onAllRequiredComplete"))
           = Cardinality(C17_SatisfyingWrites)

\* C17 witness: every required step was completed before the operation, the
\* operation writes twice and the callback is invoked after each write
C17_Witness ==
    /\ lastOp.op = "onboard" /\ lastOp.result = "none"
    /\ config.onAllRequiredComplete
    /\ C5_Satisfied(lastOp.pre, lastOp.entityId)
    /\ \E o \in Range(config.onboardings) :
         o.required /\ CompletedIn(lastOp.pre, lastOp.entityId, o)
    /\ Cardinality(C17_SatisfyingWrites) = 2
    /\ Cardinality(C14_Calls("onAllRequiredComplete")) = 2

\* ---------------------------------------------------------------------- C18
\* C18: reset returns having made no call other than the delete of the
\* record it found: neither onComplete nor onAllRequiredComplete is invoked,
\* whatever the aggregate was before and is after.
C18_ResetInvokesNoCallback ==
    lastOp.op = "reset" =>
      /\ lastOp.result = "none"
      /\ C14_Calls("onComplete") = {}
      /\ C14_Calls("onAllRequiredComplete") = {}
      /\ \/ lastOp.events = << >> /\ db = lastOp.pre
         \/ lastOp.events = << Event("delete", lastOp.id, db) >>

\* C18 witness: both callbacks are configured and the reset of a required,
\* completed step turns allComplete from true to false
C18_Witness ==
    /\ lastOp.op = "reset" /\ Known(lastOp.id)
    /\ config.onComplete /\ config.onAllRequiredComplete
    /\ DefOf(lastOp.id).required
    /\ allRequiredComplete(statuses(config, lastOp.pre, condition,
                                    lastOp.entityId))
    /\ ~AllCompleteNow(lastOp.entityId)

\* ---------------------------------------------------------------------- C19
\* the pair (e, i) has never been completed: it has no record, or a record
\* that carries no completedAt
C19_NeverCompleted(e, i) ==
    \A r \in RecordsOf(db, e, i) : r.completedAt = Undefined

\* C19: completedVersion is the version at which the step was completed: it
\* is null while the step has never been completed, a step that was only
\* skipped included; after a complete it is the definition's version; and a
\* skip of a completed step leaves it at the version of that completion.
C19_CompletedVersionIsCompletionVersion ==
    /\ \A e \in entityIds : \A i \in RegistryIds :
         C19_NeverCompleted(e, i) => StatusNow(e, i).completedVersion = Null
    /\ (lastOp.op = "complete" /\ Known(lastOp.id)) =>
         StatusNow(lastOp.entityId, lastOp.id).completedVersion
           = DefOf(lastOp.id).version
    /\ (lastOp.op = "skip" /\ lastOp.result = "none") =>
         \A r \in RecordsOf(lastOp.pre, lastOp.entityId, lastOp.id) :
           r.state = "completed" =>
             StatusNow(lastOp.entityId, lastOp.id).completedVersion = r.version

\* ---------------------------------------------------------------------- C20
\* the write at position k of the last operation left its record completed
C20_Completes(k) ==
    /\ lastOp.events[k].kind = "markOnboarding"
    /\ \E r \in RecordsOf(lastOp.events[k].db, lastOp.entityId,
                          lastOp.events[k].id) : r.state = "completed"

\* C20: with onComplete configured, every write that completes a step, by
\* complete, a handler's complete or completeOther, is followed at once by
\* one invocation of onComplete with that step; onComplete is invoked
\* nowhere else, so never by a skip and never by reset, and never when it
\* is not configured.
C20_OnCompleteOncePerCompletion ==
    /\ config.onComplete =>
         \A k \in 1..Len(lastOp.events) :
           C20_Completes(k) =>
             /\ k < Len(lastOp.events)
             /\ lastOp.events[k + 1]
                  = Event("onComplete", lastOp.events[k].id,
                          lastOp.events[k].db)
    /\ \A k \in C14_Calls("onComplete") :
         /\ config.onComplete
         /\ k > 1
         /\ C20_Completes(k - 1)
         /\ lastOp.events[k - 1].id = lastOp.events[k].id
    /\ lastOp.op \in { "skip", "reset" } => C14_Calls("onComplete") = {}
    /\ (lastOp.op = "complete" /\ Known(lastOp.id) /\ config.onComplete) =>
         \E k \in 1..Len(lastOp.events) :
           /\ C14_Calls("onComplete") = { k }
           /\ lastOp.events[k].id = lastOp.id

\* C20 witness: one handler completes its own step and then another; the
\* callback is invoked twice, once with each step
C20_Witness ==
    /\ lastOp.op = "onboard" /\ lastOp.result = "none"
    /\ Cardinality(C14_Calls("onComplete")) = 2
    /\ \E k \in C14_Calls("onComplete") : lastOp.events[k].id = lastOp.id
    /\ \E k \in C14_Calls("onComplete") : lastOp.events[k].id # lastOp.id

\* ---------------------------------------------------------------------- C21
\* Each operation is one step: the order in which the steps of a behaviour
\* are taken is the order in which the store serializes the operations that
\* were issued concurrently.
\* the writes of the last operation to its own pair
C21_OwnWrites ==
    { k \in C14_Calls("markOnboarding") : lastOp.events[k].id = lastOp.id }

\* C21: whatever record earlier operations left for the pair, after a
\* successful mutation of a registered pair the pair's record is the one
\* this operation wrote: completed at the operation's time after complete,
\* skipped at the operation's time after skip, none after reset, and after
\* onboard the record left by the handler's last write to the pair (or the
\* earlier record when the handler wrote none); the pair never has more
\* than one record.
C21_LastWriterWins ==
    (/\ lastOp.op \in { "complete", "skip", "reset", "onboard" }
     /\ Known(lastOp.id) /\ lastOp.result = "none") =>
      LET e == lastOp.entityId
          i == lastOp.id
          recs == RecordsOf(db, e, i)
      IN /\ Count(db, e, i) <= 1
         /\ lastOp.op = "complete" =>
              /\ Count(db, e, i) = 1
              /\ \A r \in recs : r.state = "completed"
                                 /\ r.completedAt = lastOp.at
         /\ lastOp.op = "skip" =>
              /\ Count(db, e, i) = 1
              /\ \A r \in recs : r.state = "skipped"
                                 /\ r.skippedAt = lastOp.at
         /\ lastOp.op = "reset" => recs = {}
         /\ lastOp.op = "onboard" =>
              IF C21_OwnWrites = {}
              THEN recs = RecordsOf(lastOp.pre, e, i)
              ELSE LET k == CHOOSE m \in C21_OwnWrites :
                              \A n \in C21_OwnWrites : n <= m
                   IN /\ recs = RecordsOf(lastOp.events[k].db, e, i)
                      /\ \A r \in recs : r.state = "completed"
                                         => r.completedAt = lastOp.at
                      /\ \A r \in recs : r.state = "skipped"
                                         => r.skippedAt = lastOp.at

\* C21 witness: a complete is serialized after a skip of the same pair; the
\* one record of the pair is the completed one
C21_Witness ==
    /\ lastOp.op = "complete" /\ lastOp.result = "none"
    /\ \E r \in RecordsOf(lastOp.pre, lastOp.entityId, lastOp.id) :
         r.state = "skipped" /\ r.skippedAt < lastOp.at
    /\ Count(db, lastOp.entityId, lastOp.id) = 1
    /\ \A r \in RecordsOf(db, lastOp.entityId, lastOp.id) :
         r.state = "completed" /\ r.completedAt = lastOp.at

\* ---------------------------------------------------------------------- C22
\* the records of table d that belong to the pair (e, i), as a table
C22_Only(d, e, i) ==
    [r \in { x \in BagToSet(d) : x.entityId = e /\ x.id = i } |->
        CopiesIn(r, d)]

\* C22: list returns one status per registered definition, in registry
\* order; each element is what status returns for that definition in the
\* same state, and is the same on the table reduced to the records of that
\* definition's pair.
C22_ListIsStatusPerDefinition ==
    (lastOp.op = "list" /\ lastOp.result = "none") =>
      /\ Len(lastOp.value) = Len(config.onboardings)
      /\ \A k \in 1..Len(config.onboardings) :
           LET o == config.onboardings[k]
           IN /\ lastOp.value[k].id = o.id
              /\ lastOp.value[k] = StatusNow(lastOp.entityId, o.id)
              /\ lastOp.value[k]
                   = getStatus(C22_Only(db, lastOp.entityId, o.id),
                               condition, lastOp.entityId, o)

\* C22 witness: list on a registry of three definitions of which one is
\* completed, one hidden, and the others pending
C22_Witness ==
    /\ lastOp.op = "list" /\ lastOp.result = "none"
    /\ Len(lastOp.value) = 3
    /\ \E k \in 1..3 : lastOp.value[k].completed
    /\ \E k \in 1..3 : ~lastOp.value[k].visible
    /\ \E k \in 1..3 : lastOp.value[k].state = "pending"

\* ---------------------------------------------------------------------- C23
C23_Mutations == { "onboard", "complete", "skip", "reset" }

\* the definition ids the last operation targets for its entity: its own id
\* for complete, skip and reset; for onboard, the ids its handler wrote
\* through complete, skip and completeOther
C23_Targets ==
    IF lastOp.op = "onboard"
    THEN { lastOp.events[k].id : k \in C14_Calls("markOnboarding") }
    ELSE { lastOp.id }

\* C23: the table starts empty; a mutation changes the records of no pair
\* other than the ones it targets, so nothing it does to another definition
\* or another entity alters a pair; and a pair without record resolves to
\* pending with completedVersion null.
C23_UntouchedPairStaysPending ==
    /\ now = 0 => db = EmptyBag
    /\ lastOp.op \in C23_Mutations =>
         \A e \in { "e1", "e2" } : \A i \in ArgIds :
           (e # lastOp.entityId \/ i \notin C23_Targets) =>
             RecordsOf(db, e, i) = RecordsOf(lastOp.pre, e, i)
    /\ \A e \in entityIds : \A i \in RegistryIds :
         RecordsOf(db, e, i) = {} =>
           /\ StatusNow(e, i).state = "pending"
           /\ StatusNow(e, i).completedVersion = Null

\* C23 witness: the same definition is completed for a second entity while
\* the first entity's record stays as it was
C23_Witness ==
    /\ lastOp.op = "complete" /\ lastOp.result = "none"
    /\ \E e \in entityIds :
         /\ e # lastOp.entityId
         /\ RecordsOf(lastOp.pre, e, lastOp.id) # {}
         /\ RecordsOf(db, e, lastOp.id) = RecordsOf(lastOp.pre, e, lastOp.id)
    /\ RecordsOf(lastOp.pre, lastOp.entityId, lastOp.id) = {}

\* ---------------------------------------------------------------------- C24
\* the conditions as they were before the last step, when that step changed
\* the value of one condition
C24_ConditionBefore ==
    [condition EXCEPT ![lastOp.entityId][lastOp.id] = ~@]

\* C24: the visible flag of every status is the value the definition's
\* condition has in the state of the read, and true for a definition
\* without condition; a read returns that value; and a change of a
\* condition's value alone changes the visible flag of that pair's status,
\* on the same table.
C24_VisibleIsConditionAtRead ==
    /\ \A e \in entityIds : \A o \in Range(config.onboardings) :
         StatusNow(e, o.id).visible
           = (IF o.hasCondition THEN condition[e][o.id] ELSE TRUE)
    /\ (lastOp.op = "status" /\ lastOp.result = "none") =>
         lastOp.value[1].visible
           = VisibleNow(lastOp.entityId, DefOf(lastOp.id))
    /\ (lastOp.op = "list" /\ lastOp.result = "none") =>
         \A k \in 1..Len(lastOp.value) :
           lastOp.value[k].visible
             = VisibleNow(lastOp.entityId, config.onboardings[k])
    /\ lastOp.op = "SetCondition" =>
         LET before == getStatus(db, C24_ConditionBefore, lastOp.entityId,
                                 DefOf(lastOp.id))
             after == StatusNow(lastOp.entityId, lastOp.id)
         IN /\ after.visible = ~before.visible
            /\ after.state = before.state
            /\ after.completedAt = before.completedAt

\* C24 witness: the condition of a required pending step turns false; on
\* the same table allComplete was false and is now true
C24_Witness ==
    /\ lastOp.op = "SetCondition"
    /\ DefOf(lastOp.id).required
    /\ StatusNow(lastOp.entityId, lastOp.id).state = "pending"
    /\ ~StatusNow(lastOp.entityId, lastOp.id).visible
    /\ AllCompleteNow(lastOp.entityId)
    /\ ~allRequiredComplete(statuses(config, db, C24_ConditionBefore,
                                     lastOp.entityId))

\* ---------------------------------------------------------------------- C25
\* the positions of the isComplete calls of the last operation's handler
C25_IsCompleteCalls ==
    C14_Calls("isComplete:true") \cup C14_Calls("isComplete:false")

\* C25: a handler's isComplete(otherId) answers true exactly when the other
\* definition has, for the same entity, a completed record at its current
\* version; it answers false when the other step is pending, skipped or
\* outdated; and the table after the call is the table before it.
C25_IsCompleteIsCompletedFlag ==
    lastOp.op = "onboard" =>
      \A k \in C25_IsCompleteCalls :
        LET other == DefOf(lastOp.events[k].id)
            st == getStatus(C12_Before(k), condition, lastOp.entityId, other)
            answer == (lastOp.events[k].kind = "isComplete:true")
        IN /\ other # NoDef
           /\ answer <=> CompletedIn(C12_Before(k), lastOp.entityId, other)
           /\ answer <=> st.completed
           /\ st.state \in { "pending", "skipped", "outdated" } => ~answer
           /\ lastOp.events[k].db = C12_Before(k)

\* C25 witness: isComplete is asked of a step completed at version 1 whose
\* definition is now at version 2, and answers false
C25_Witness ==
    /\ lastOp.op = "onboard" /\ lastOp.result = "none"
    /\ \E k \in C14_Calls("isComplete:false") :
         getStatus(C12_Before(k), condition, lastOp.entityId,
                   DefOf(lastOp.events[k].id)).state = "outdated"

\* ---------------------------------------------------------------------- C26
\* C26: with onComplete configured, a completing write is followed at once
\* by onComplete, which sees the step completed at its current version;
\* when the aggregate is satisfied and onAllRequiredComplete is configured,
\* that callback comes next, on the table onComplete left; it never comes
\* between a completing write and its onComplete.
C26_WriteThenOnCompleteThenAggregate ==
    config.onComplete =>
      /\ \A k \in 1..Len(lastOp.events) :
           C20_Completes(k) =>
             /\ k < Len(lastOp.events)
             /\ lastOp.events[k + 1].kind = "onComplete"
             /\ lastOp.events[k + 1].id = lastOp.events[k].id
             /\ CompletedIn(lastOp.events[k + 1].db, lastOp.entityId,
                            DefOf(lastOp.events[k].id))
             /\ (/\ config.onAllRequiredComplete
                 /\ C5_Satisfied(lastOp.events[k + 1].db, lastOp.entityId)) =>
                  /\ k + 1 < Len(lastOp.events)
                  /\ lastOp.events[k + 2]
                       = Event("onAllRequiredComplete", "",
                               lastOp.events[k + 1].db)
      /\ \A j \in C14_Calls("onAllRequiredComplete") :
           j > 1 /\ ~C20_Completes(j - 1)

\* C26 witness: a complete with both callbacks configured makes exactly the
\* calls write, onComplete, onAllRequiredComplete, in that order
C26_Witness ==
    /\ lastOp.op = "complete" /\ lastOp.result = "none"
    /\ Len(lastOp.events) = 3
    /\ lastOp.events[1].kind = "markOnboarding"
    /\ lastOp.events[2].kind = "onComplete"
    /\ lastOp.events[3].kind = "onAllRequiredComplete"

\* ---------------------------------------------------------------------- C27
\* table d holds no skipped record of a definition that is not opt-in
C27_NoMandatorySkipped(d) ==
    \A r \in BagToSet(d) : r.state = "skipped" => DefOf(r.id).optIn

\* the last operation is an onboard whose handler calls skip first
C27_HandlerSkipsFirst ==
    /\ lastOp.op = "onboard" /\ Known(lastOp.id)
    /\ lastOp.data # << >>
    /\ lastOp.data[1].call = "skip"

\* C27: no table, in a state or after a call inside an operation, holds a
\* skipped record of a definition that is not opt-in; the skip API and a
\* handler's skip both end with NotAllowed for such a definition, having
\* written nothing.
C27_NoSkippedRecordUnlessOptIn ==
    /\ C27_NoMandatorySkipped(db)
    /\ \A k \in 1..Len(lastOp.events) :
         C27_NoMandatorySkipped(lastOp.events[k].db)
    /\ (/\ \/ lastOp.op = "skip" /\ Known(lastOp.id)
           \/ C27_HandlerSkipsFirst
        /\ ~DefOf(lastOp.id).optIn) =>
         /\ lastOp.result = "NotAllowed"
         /\ db = lastOp.pre
         /\ C14_Calls("markOnboarding") = {}

\* C27 witness: the handler of a definition that is not opt-in calls skip
\* and is rejected, while the table holds the skipped record of an opt-in
\* definition
C27_Witness ==
    /\ C27_HandlerSkipsFirst
    /\ ~DefOf(lastOp.id).optIn
    /\ lastOp.result = "NotAllowed"
    /\ \E r \in BagToSet(db) : r.state = "skipped"

\* ---------------------------------------------------------------------- C28
\* C28: every write, of skip as of complete, leaves its record at the
\* definition's current version; while no definition's version has changed
\* every record is at its definition's version and no status is outdated;
\* a status is outdated only after a version change, for a completed record
\* at an older version.
C28_WritesStampCurrentVersion ==
    /\ \A k \in C14_Calls("markOnboarding") :
         \A r \in RecordsOf(lastOp.events[k].db, lastOp.entityId,
                            lastOp.events[k].id) :
           r.version = DefOf(lastOp.events[k].id).version
    /\ Bumps(config.onboardings) = 0 =>
         /\ \A r \in BagToSet(db) : r.version = DefOf(r.id).version
         /\ \A e \in entityIds : \A i \in RegistryIds :
              ~StatusNow(e, i).outdated /\ StatusNow(e, i).state # "outdated"
    /\ \A e \in entityIds : \A i \in RegistryIds :
         StatusNow(e, i).outdated =>
           /\ Bumps(config.onboardings) > 0
           /\ \E r \in RecordsOf(db, e, i) :
                r.state = "completed" /\ r.version < DefOf(i).version

\* C28 witness: a skip at version 2 of a record written at version 1; the
\* record is now at version 2
C28_Witness ==
    /\ lastOp.op = "skip" /\ lastOp.result = "none"
    /\ DefOf(lastOp.id).version = 2
    /\ \E r \in RecordsOf(lastOp.pre, lastOp.entityId, lastOp.id) :
         r.version = 1
    /\ \A r \in RecordsOf(db, lastOp.entityId, lastOp.id) : r.version = 2

\* ---------------------------------------------------------------------- C29
\* every record of table d carries the timestamp of its state
C29_Stamped(d) ==
    \A r \in BagToSet(d) :
      /\ r.state \in { "completed", "skipped" }
      /\ r.state = "completed" => r.completedAt # Undefined
      /\ r.state = "skipped" => r.skippedAt # Undefined

\* C29: in every state, and after every call inside an operation, each
\* record is completed with completedAt set or skipped with skippedAt set;
\* no status is completed or outdated with completedAt null, nor skipped
\* with skippedAt null.
C29_StateHasItsTimestamp ==
    /\ C29_Stamped(db)
    /\ \A k \in 1..Len(lastOp.events) : C29_Stamped(lastOp.events[k].db)
    /\ \A e \in entityIds : \A i \in RegistryIds :
         LET st == StatusNow(e, i)
         IN /\ (st.completed \/ st.outdated) => st.completedAt # Null
            /\ st.skipped => st.skippedAt # Null
    /\ (lastOp.op = "status" /\ lastOp.result = "none") =>
         /\ lastOp.value[1].completed => lastOp.value[1].completedAt # Null
         /\ lastOp.value[1].skipped => lastOp.value[1].skippedAt # Null

\* C29 witness: status reads a step that was skipped and then completed;
\* it reports completed with completedAt later than skippedAt
C29_Witness ==
    /\ lastOp.op = "status" /\ lastOp.result = "none"
    /\ lastOp.value[1].completed
    /\ lastOp.value[1].skippedAt # Null
    /\ lastOp.value[1].completedAt > lastOp.value[1].skippedAt

C31_AllVisible == [e \in { "e1", "e2" } |-> [i \in DefIds |-> TRUE]]

\* what the last operation does on the table before it when every step is
\* visible
C31_WhenVisible ==
    CASE lastOp.op = "complete" ->
           completeCtx(config, C31_AllVisible, lastOp.pre, lastOp.entityId,
                       lastOp.id, lastOp.at)
      [] lastOp.op = "skip" ->
           skipCtx(config, C31_AllVisible, lastOp.pre, lastOp.entityId,
                   lastOp.id, lastOp.at)
      [] lastOp.op = "onboard" ->
           onboardCtx(config, C31_AllVisible, lastOp.pre, lastOp.entityId,
                      lastOp.id, lastOp.data, lastOp.at)

\* the ids of the definitions hidden for the last operation's entity
C31_Hidden ==
    { o.id : o \in { x \in Range(config.onboardings) :
                       ~VisibleNow(lastOp.entityId, x) } }

\* C31: complete, skip and onboard end with the same result and leave the
\* same table as they do when every step is visible; complete of a hidden
\* step returns and leaves it completed, skip of a hidden opt-in step
\* returns and leaves it skipped, and every write of a handler to a hidden
\* step is made.
C31_VisibilityDoesNotGateMutations ==
    IsMark(lastOp.op) =>
      /\ lastOp.result = C31_WhenVisible.error
      /\ db = C31_WhenVisible.db
      /\ lastOp.id \in C31_Hidden =>
           /\ lastOp.op = "complete" =>
                /\ lastOp.result = "none"
                /\ \E r \in RecordsOf(db, lastOp.entityId, lastOp.id) :
                     r.state = "completed" /\ r.completedAt = lastOp.at
           /\ (lastOp.op = "skip" /\ DefOf(lastOp.id).optIn) =>
                /\ lastOp.result = "none"
                /\ \E r \in RecordsOf(db, lastOp.entityId, lastOp.id) :
                     r.state = "skipped" /\ r.skippedAt = lastOp.at
      /\ (/\ lastOp.op = "onboard" /\ Len(lastOp.data) = 1
          /\ lastOp.data[1].call = "completeOther"
          /\ lastOp.data[1].otherId \in C31_Hidden) =>
           /\ lastOp.result = "none"
           /\ \E r \in RecordsOf(db, lastOp.entityId, lastOp.data[1].otherId) :
                r.state = "completed" /\ r.completedAt = lastOp.at

\* C31 witness: complete of a step whose condition is false; the step is
\* completed and still hidden
C31_Witness ==
    /\ lastOp.op = "complete" /\ lastOp.result = "none"
    /\ lastOp.id \in C31_Hidden
    /\ StatusNow(lastOp.entityId, lastOp.id).completed
    /\ ~StatusNow(lastOp.entityId, lastOp.id).visible

\* ---------------------------------------------------------------------- C32
\* entity e has no required step to do: the registry has no required
\* definition, or every required definition is hidden for e
C32_NothingRequired(e) ==
    \A o \in Range(config.onboardings) : o.required => ~VisibleNow(e, o)

\* C32: for an entity with no required visible definition allComplete is
\* true, with or without records, and the allComplete read returns true;
\* with onAllRequiredComplete configured, every write of a complete, skip or
\* completeOther for that entity is followed by the callback.
C32_VacuousAggregateHolds ==
    \A e \in entityIds :
      C32_NothingRequired(e) =>
        /\ AllCompleteNow(e)
        /\ (lastOp.op = "allComplete" /\ lastOp.entityId = e) =>
             (lastOp.result = "none" /\ lastOp.value = << TRUE >>)
        /\ (/\ IsMark(lastOp.op) /\ lastOp.entityId = e
            /\ config.onAllRequiredComplete) =>
             /\ \A k \in C14_Calls("markOnboarding") : C5_FiredAfter(k)
             /\ Cardinality(C14_Calls("onAllRequiredComplete"))
                  = Cardinality(C14_Calls("markOnboarding"))
             /\ (lastOp.op \in { "complete", "skip" }
                 /\ lastOp.result = "none") =>
                  C14_Calls("onAllRequiredComplete") # {}

\* C32 witness: in a registry without required definition, the first
\* operation is a skip, and the callback is invoked
C32_Witness ==
    /\ \A o \in Range(config.onboardings) : ~o.required
    /\ lastOp.op = "skip" /\ lastOp.result = "none"
    /\ lastOp.pre = EmptyBag
    /\ config.onAllRequiredComplete
    /\ C14_Calls("onAllRequiredComplete") # {}

====
